---------------------------- MODULE Spec2Model ----------------------------
(***************************************************************************)
(* A model of the NES emulator core: the 8-bit status Bitfield, the 64KB   *)
(* RAM with its mirrored regions and iNES loader, the 6502 CPU's           *)
(* fetch/decode/execute step and the frame scheduler NES::run.             *)
(*                                                                         *)
(* Numbers keep the width the source gives them: u8 values are 0..255,     *)
(* u16 values 0..65535.  Rust's +, - on these panic on overflow when the   *)
(* build has overflow checks (the debug profile) and wrap otherwise (the   *)
(* release profile); the variable overflowChecks fixes which build runs.   *)
(***************************************************************************)
EXTENDS Integers, Sequences, FiniteSets, TLC

VARIABLES
    rom_file,        \* main: the cartridge file given to NES::new
    overflowChecks,  \* TRUE: arithmetic overflow panics; FALSE: it wraps
    cpu,             \* NES.cpu: [a, x, y, pc, s, p]
    ram,             \* NES.ram: the nonzero cells of RAM.ram, index -> u8
    status,          \* "loading", "running", "exit0" (BRK), "exit1" (unknown
                     \* opcode), "panic"
    last,            \* the last step: opcode fetched, state before it, cycles returned
    n_instructions,  \* execute_instructions: its budget parameter
    n_cycles,        \* execute_instructions: cycles accumulated by the call
    run_n_cycles,    \* NES::run: its local n_cycles
    iterations,      \* completed iterations of run's loop
    total_cycles,    \* cycles returned by all steps so far
    steps,           \* steps taken by the current call of execute_instructions
    wrote            \* the last RAM::write made on its own: <<addr, data>>, or << >>

vars == <<rom_file, overflowChecks, cpu, ram, status, last, n_instructions, n_cycles,
          run_n_cycles, iterations, total_cycles, steps, wrote>>


----------------------------------------------------------------------------
(* bitfield.rs *)

Pow2(n) ==
    CASE n = 0 -> 1 [] n = 1 -> 2 [] n = 2 -> 4 [] n = 3 -> 8
      [] n = 4 -> 16 [] n = 5 -> 32 [] n = 6 -> 64 [] n = 7 -> 128

\* Bitfield::get_bit
GetBit(value, bit) == (value \div Pow2(bit)) % 2 = 1

\* Bitfield::set_bit
SetBit(value, bit, b) ==
    IF b THEN (IF GetBit(value, bit) THEN value ELSE value + Pow2(bit))
         ELSE (IF GetBit(value, bit) THEN value - Pow2(bit) ELSE value)

\* u8 & u8
BitAnd(u, v) ==
    LET both(i) == IF GetBit(u, i) /\ GetBit(v, i) THEN Pow2(i) ELSE 0
    IN  both(0) + both(1) + both(2) + both(3) + both(4) + both(5) + both(6) + both(7)

\* enum StatusFlag
Carry == 0
Zero == 1
InterruptDisable == 2
DecimalMode == 3
Overflow == 6
Negative == 7

----------------------------------------------------------------------------
(* ram.rs *)

CPU_ROM_START_ADDRESS == \h8000
PRG_PAGE_SIZE == \h4000

\* RAM::new: every cell is 0, so no cell is stored
NewRam == [i \in {} |-> 0]

\* get_ram_address with the PPU mirrors folded modulo 16 for modulo 8
GetRamAddressModulo16(addr) ==
    IF addr >= \h0800 /\ addr <= \h1FFF THEN addr % \h0800
    ELSE IF addr >= \h2008 /\ addr <= \h3FFF THEN \h2000 + (addr % \h0010)
    ELSE addr

\* RAM::get_ram_address
GetRamAddress(addr) ==
    IF addr >= \h0800 /\ addr <= \h1FFF THEN addr % \h0800
    ELSE IF addr >= \h2008 /\ addr <= \h3FFF THEN \h2000 + (addr % \h0008)
    ELSE addr

\* the cell at index i of RAM.ram
Cell(m, i) == IF i \in DOMAIN m THEN m[i] ELSE 0

\* RAM.ram with the cell at index i set to data
SetCell(m, i, data) ==
    IF data = 0 THEN [j \in DOMAIN m \ {i} |-> m[j]]
    ELSE [j \in DOMAIN m \cup {i} |-> IF j = i THEN data ELSE m[j]]

\* RAM::read
Read(m, addr) == Cell(m, GetRamAddress(addr))

\* RAM::write
Write(m, addr, data) == SetCell(m, GetRamAddress(addr), data)


\* A cartridge file: its first 16 bytes (fewer when the file is shorter), the
\* nonzero bytes that follow them (offset from file byte 16 -> u8) and the
\* number of bytes that follow them.
HeaderByte(file, i) == file.header[i + 1]

\* from_file: let is_nes_2_0 = (header[7] & 0x0C) == 0x08
IsNes20(file) == BitAnd(HeaderByte(file, 7), \h0C) = \h08

\* from_file: let has_trainer = (header[6] & 0b00000100) != 0
HasTrainer(file) == BitAnd(HeaderByte(file, 6), 4) # 0

\* from_file: prg_rom_size
PrgRomSize(file) ==
    IF IsNes20(file)
    THEN ((HeaderByte(file, 9) % 16) * 256 + HeaderByte(file, 4)) * PRG_PAGE_SIZE
    ELSE HeaderByte(file, 4) * PRG_PAGE_SIZE

\* from_file: the file position once the trainer is skipped, from file byte 16
PrgStart(file) == IF HasTrainer(file) THEN 512 ELSE 0

\* from_file without the bounds check of the slice ram.ram[0x8000..]
FromFilePanicsUnlessTruncated(file) ==
    \/ Len(file.header) < 16
    \/ SubSeq(file.header, 1, 4) # <<\h4E, \h45, \h53, \h1A>>
    \/ PrgRomSize(file) > 0 /\ file.size < PrgStart(file) + PrgRomSize(file)

\* from_file: the calls that panic: read_exact of the header, the magic test,
\* the slice ram.ram[0x8000..0x8000 + prg_rom_size], read_exact of the PRG bytes
\* (read_exact into an empty slice returns Ok whatever the file position)
FromFilePanics(file) ==
    \/ Len(file.header) < 16
    \/ SubSeq(file.header, 1, 4) # <<\h4E, \h45, \h53, \h1A>>
    \/ CPU_ROM_START_ADDRESS + PrgRomSize(file) > \h10000
    \/ PrgRomSize(file) > 0 /\ file.size < PrgStart(file) + PrgRomSize(file)

\* from_file: file.read_exact(&mut ram.ram[0x8000..0x8000 + prg_rom_size])
ReadPrg(file) ==
    LET from == PrgStart(file)
        offs == {o \in DOMAIN file.data : o >= from /\ o < from + PrgRomSize(file)}
    IN  [i \in {CPU_ROM_START_ADDRESS + (o - from) : o \in offs} |->
            file.data[(i - CPU_ROM_START_ADDRESS) + from]]

\* from_file: ram.ram.copy_within(0x8000..0x8000 + PRG_PAGE_SIZE, 0xC000)
CopyWithin(m) ==
    LET src == {i \in DOMAIN m : i >= CPU_ROM_START_ADDRESS
                                 /\ i < CPU_ROM_START_ADDRESS + PRG_PAGE_SIZE}
        kept == {i \in DOMAIN m : i < \hC000}
    IN  [i \in kept \cup {j + PRG_PAGE_SIZE : j \in src} |->
            IF i >= \hC000 THEN m[i - PRG_PAGE_SIZE] ELSE m[i]]

\* from_file without the copy_within of a single page
FromFileNoMirror(file) == ReadPrg(file)

\* RAM::from_file, when it returns
FromFile(file) ==
    IF PrgRomSize(file) = PRG_PAGE_SIZE THEN CopyWithin(ReadPrg(file))
    ELSE ReadPrg(file)

----------------------------------------------------------------------------
(* cpu.rs *)

\* u16 + u16 and u16 - u16 as the build computes them: Panics when the build
\* checks overflow and the result is out of range, else the result modulo 2^16
AddPanics(u, v) == overflowChecks /\ u + v > \hFFFF
Add16(u, v) == (u + v) % \h10000
Sub16(u, v) == (u - v) % \h10000
SubPanics(u, v) == overflowChecks /\ u - v < 0

\* u8 + u8
Add8Panics(u, v) == overflowChecks /\ u + v > \hFF
Add8(u, v) == (u + v) % \h100

\* u8 as i8 as i32
AsI8(b) == IF b >= \h80 THEN b - \h100 ELSE b

\* from_ram reading the reset vector high byte first
FromRamBigEndian(m) ==
    [a |-> 0, x |-> 0, y |-> 0,
     pc |-> \h100 * Read(m, \hFFFC) + Read(m, \hFFFD),
     s |-> 0, p |-> 0]

\* CPU::from_ram
FromRam(m) ==
    [a |-> 0, x |-> 0, y |-> 0,
     pc |-> Read(m, \hFFFC) + \h100 * Read(m, \hFFFD),
     s |-> 0, p |-> 0]

\* CPU::read_next_byte: the byte at pc; pc += 1.  ok is FALSE when it panics.
ReadNextByte(c, m) ==
    [v |-> Read(m, c.pc),
     ok |-> ~AddPanics(c.pc, 1),
     c |-> IF AddPanics(c.pc, 1) THEN c ELSE [c EXCEPT !.pc = Add16(c.pc, 1)]]

\* CPU::read_word_number: u16::from_le_bytes([read(addr), read(addr + 1)])
ReadWordNumber(m, addr) ==
    [v |-> Read(m, addr) + \h100 * Read(m, Add16(addr, 1)),
     ok |-> ~AddPanics(addr, 1)]

\* read_next_word_number with `self.pc += 1` for `self.pc += 2`
ReadNextWordNumberAdvancesOne(c, m) ==
    LET Advance(res, ok) ==
            [v |-> res.v, ok |-> ok,
             c |-> IF ok THEN [c EXCEPT !.pc = Add16(c.pc, 1)] ELSE c]
    IN  Advance(ReadWordNumber(m, c.pc), ~AddPanics(c.pc, 1))

\* CPU::read_next_word_number: the word at pc; pc += 2
ReadNextWordNumber(c, m) ==
    LET Advance(res, ok) ==
            [v |-> res.v, ok |-> ok,
             c |-> IF ok THEN [c EXCEPT !.pc = Add16(c.pc, 2)] ELSE c]
    IN  Advance(ReadWordNumber(m, c.pc),
                ~AddPanics(c.pc, 1) /\ ~AddPanics(c.pc, 2))

\* CPU::is_crossing_page_boundary
IsCrossingPageBoundary(addr1, addr2) == (addr1 \div \h100) # (addr2 \div \h100)

\* get_value, AbsoluteX / AbsoluteY arms: index is self.x or self.y
GetValueAbsoluteIndexed(c, m, index) ==
    LET At(w, addr, carry) ==
            [c |-> w.c, v |-> Read(m, addr),
             crossed |-> IsCrossingPageBoundary(addr, Sub16(addr, index)),
             ok |-> w.ok /\ ~AddPanics(w.v, index + carry) /\ ~SubPanics(addr, index)]
        Indexed(w, carry) == At(w, Add16(w.v, index + carry), carry)
    IN  Indexed(ReadNextWordNumber(c, m), IF GetBit(c.p, Carry) THEN 1 ELSE 0)

\* get_value, IndirectIndexed arm
GetValueIndirectIndexed(c, m) ==
    LET At(b, indirect_addr, new_location) ==
            [c |-> b.c, v |-> Read(m, new_location),
             crossed |-> IsCrossingPageBoundary(indirect_addr.v, new_location),
             ok |-> b.ok /\ indirect_addr.ok /\ ~AddPanics(indirect_addr.v, c.y)]
        Indexed(b, indirect_addr) == At(b, indirect_addr, Add16(indirect_addr.v, c.y))
        Pointer(b) == Indexed(b, ReadWordNumber(m, b.v))
    IN  Pointer(ReadNextByte(c, m))

\* get_value, Relative arm: (pc + offset as i32) as u16 truncates, never panics
GetValueRelative(c, m) ==
    LET At(b, new_location) ==
            [c |-> b.c, v |-> new_location,
             crossed |-> IsCrossingPageBoundary(b.c.pc, new_location),
             ok |-> b.ok]
        Target(b) == At(b, (b.c.pc + AsI8(b.v)) % \h10000)
    IN  Target(ReadNextByte(c, m))

\* get_value, ZeroPageX / ZeroPageY arms: (addr + index) is a u8 sum
GetValueZeroPageIndexed(c, m, index) ==
    LET At(b) ==
            [c |-> b.c, v |-> Read(m, Add8(b.v, index)), crossed |-> FALSE,
             ok |-> b.ok /\ ~Add8Panics(b.v, index)]
    IN  At(ReadNextByte(c, m))

\* get_value, Absolute arm
GetValueAbsolute(c, m) ==
    LET At(w) == [c |-> w.c, v |-> Read(m, w.v), crossed |-> FALSE, ok |-> w.ok]
    IN  At(ReadNextWordNumber(c, m))

\* get_value, Immediate arm
GetValueImmediate(c, m) ==
    LET At(b) == [c |-> b.c, v |-> b.v, crossed |-> FALSE, ok |-> b.ok]
    IN  At(ReadNextByte(c, m))

\* get_value, Indirect arm
GetValueIndirect(c, m) ==
    LET At(w, r) == [c |-> w.c, v |-> r.v, crossed |-> FALSE, ok |-> w.ok /\ r.ok]
        Pointer(w) == At(w, ReadWordNumber(m, w.v))
    IN  Pointer(ReadNextWordNumber(c, m))

\* get_value, IndexedIndirect arm
GetValueIndexedIndirect(c, m) ==
    LET At(b, r) == [c |-> b.c, v |-> r.v, crossed |-> FALSE, ok |-> b.ok /\ r.ok]
        Pointer(b) == At(b, ReadWordNumber(m, (b.v + c.x) % \h100))
    IN  Pointer(ReadNextByte(c, m))

\* get_value, ZeroPage arm
GetValueZeroPage(c, m) ==
    LET At(b) == [c |-> b.c, v |-> Read(m, b.v), crossed |-> FALSE, ok |-> b.ok]
    IN  At(ReadNextByte(c, m))

\* CPU::get_value: the cpu after the operand fetch, the (u16, bool) returned,
\* and ok, FALSE when the call panics
GetValue(c, m, mode) ==
    CASE mode = "Accumulator" -> [c |-> c, v |-> c.a, crossed |-> FALSE, ok |-> TRUE]
      [] mode = "Absolute" -> GetValueAbsolute(c, m)
      [] mode = "AbsoluteX" -> GetValueAbsoluteIndexed(c, m, c.x)
      [] mode = "AbsoluteY" -> GetValueAbsoluteIndexed(c, m, c.y)
      [] mode = "Immediate" -> GetValueImmediate(c, m)
      [] mode = "Indirect" -> GetValueIndirect(c, m)
      [] mode = "IndexedIndirect" -> GetValueIndexedIndirect(c, m)
      [] mode = "IndirectIndexed" -> GetValueIndirectIndexed(c, m)
      [] mode = "Relative" -> GetValueRelative(c, m)
      [] mode = "ZeroPage" -> GetValueZeroPage(c, m)
      [] mode = "ZeroPageX" -> GetValueZeroPageIndexed(c, m, c.x)
      [] mode = "ZeroPageY" -> GetValueZeroPageIndexed(c, m, c.y)

\* set_bit(StatusFlag::Carry as u8, value == 0) for StatusFlag::Zero
SetCarryNegative(p, value) ==
    SetBit(SetBit(p, Carry, value = 0), Negative, GetBit(value, 7))

\* Negative taken from bit 6: value & (1 << 6) != 0
SetZeroNegativeFromBit6(p, value) ==
    SetBit(SetBit(p, Zero, value = 0), Negative, GetBit(value, 6))

\* p.set_bit(Zero, value == 0); p.set_bit(Negative, value & (1 << 7) != 0)
SetZeroNegative(p, value) ==
    SetBit(SetBit(p, Zero, value = 0), Negative, GetBit(value, 7))

\* What an operation hands back to execute_next_instruction: the cpu, the ram,
\* the cycles it returns (0 when the match arm supplies them) and ok, FALSE
\* when the operation panics
Outcome(c, m, cycles, ok) == [c |-> c, m |-> m, cycles |-> cycles, ok |-> ok]

\* branch_if_comparison without the extra cycle of a page crossing
BranchIfComparisonFlatPenalty(c, m, condition) ==
    LET Branch(g) ==
            IF condition
            THEN Outcome([g.c EXCEPT !.pc = g.v], m, 2 + 1, g.ok)
            ELSE Outcome(g.c, m, 2, g.ok)
    IN  Branch(GetValue(c, m, "Relative"))

\* CPU::branch_if_comparison
BranchIfComparison(c, m, condition) ==
    LET Branch(g) ==
            IF condition
            THEN Outcome([g.c EXCEPT !.pc = g.v], m,
                         2 + (IF g.crossed THEN 2 ELSE 1), g.ok)
            ELSE Outcome(g.c, m, 2, g.ok)
    IN  Branch(GetValue(c, m, "Relative"))

\* CPU::bcc, bcs, beq, bmi, bne, bpl
Bcc(c, m) == BranchIfComparison(c, m, ~GetBit(c.p, Carry))
Bcs(c, m) == BranchIfComparison(c, m, GetBit(c.p, Carry))
Beq(c, m) == BranchIfComparison(c, m, GetBit(c.p, Zero))
Bmi(c, m) == BranchIfComparison(c, m, GetBit(c.p, Negative))
Bne(c, m) == BranchIfComparison(c, m, ~GetBit(c.p, Zero))
Bpl(c, m) == BranchIfComparison(c, m, ~GetBit(c.p, Negative))

\* bit with Overflow taken from bit 6 of the AND result
BitOverflowFromResult(c, m, mode) ==
    LET Flags(p, value, result) ==
            SetBit(SetBit(SetBit(p, Zero, result = 0),
                          Overflow, GetBit(result, 6)),
                   Negative, GetBit(value, 7))
        Test(g, value) ==
            Outcome([g.c EXCEPT !.p = Flags(g.c.p, value, BitAnd(g.c.a, value))],
                    m, 0, g.ok)
        Fetched(g) == Test(g, g.v % \h100)
    IN  Fetched(GetValue(c, m, mode))

\* CPU::bit
Bit(c, m, mode) ==
    LET Flags(p, value, result) ==
            SetBit(SetBit(SetBit(p, Zero, result = 0),
                          Overflow, GetBit(value, 6)),
                   Negative, GetBit(value, 7))
        Test(g, value) ==
            Outcome([g.c EXCEPT !.p = Flags(g.c.p, value, BitAnd(g.c.a, value))],
                    m, 0, g.ok)
        Fetched(g) == Test(g, g.v % \h100)
    IN  Fetched(GetValue(c, m, mode))

\* CPU::dec: the u16 get_value returns is used as the address
Dec(c, m, mode) ==
    LET Put(g, addr, value) ==
            Outcome([g.c EXCEPT !.p = SetZeroNegative(g.c.p, value)],
                    Write(m, addr, value), 0, g.ok)
        At(g, addr) == Put(g, addr, (Read(m, addr) - 1) % \h100)
        Fetched(g) == At(g, g.v)
    IN  Fetched(GetValue(c, m, mode))

\* CPU::inc
Inc(c, m, mode) ==
    LET Put(g, addr, value) ==
            Outcome([g.c EXCEPT !.p = SetZeroNegative(g.c.p, value)],
                    Write(m, addr, value), 0, g.ok)
        At(g, addr) == Put(g, addr, (Read(m, addr) + 1) % \h100)
        Fetched(g) == At(g, g.v)
    IN  Fetched(GetValue(c, m, mode))

\* CPU::decrement_register, CPU::increment_register on register reg
DecrementRegister(c, m, reg) ==
    LET Put(value) ==
            Outcome([c EXCEPT ![reg] = value, !.p = SetZeroNegative(c.p, value)],
                    m, 2, TRUE)
    IN  Put((c[reg] - 1) % \h100)

IncrementRegister(c, m, reg) ==
    LET Put(value) ==
            Outcome([c EXCEPT ![reg] = value, !.p = SetZeroNegative(c.p, value)],
                    m, 2, TRUE)
    IN  Put((c[reg] + 1) % \h100)

\* CPU::jmp
Jmp(c, m, mode) ==
    LET Go(g) == Outcome([g.c EXCEPT !.pc = g.v], m, 0, g.ok)
    IN  Go(GetValue(c, m, mode))

\* the cycles of load_into_register without `+ result.1 as u64`
LoadCyclesNoPagePenalty(mode, crossed) ==
    CASE mode = "Immediate" -> 2
      [] mode = "ZeroPage" -> 3
      [] mode \in {"ZeroPageX", "ZeroPageY", "Absolute", "AbsoluteX", "AbsoluteY"} -> 4
      [] mode = "IndexedIndirect" -> 6
      [] mode = "IndirectIndexed" -> 5
      [] OTHER -> 0

\* load_into_register: let cycles = match mode { ... }
LoadCycles(mode, crossed) ==
    CASE mode = "Immediate" -> 2
      [] mode = "ZeroPage" -> 3
      [] mode \in {"ZeroPageX", "ZeroPageY", "Absolute", "AbsoluteX", "AbsoluteY"} ->
            4 + (IF crossed THEN 1 ELSE 0)
      [] mode = "IndexedIndirect" -> 6
      [] mode = "IndirectIndexed" -> 5 + (IF crossed THEN 1 ELSE 0)
      [] OTHER -> 0

\* CPU::load_into_register (and lda, ldx, ldy, which return its cycles)
LoadIntoRegister(c, m, mode, register) ==
    LET Put(result, value) ==
            Outcome([result.c EXCEPT !.p = SetZeroNegative(result.c.p, value),
                                     ![register] = value],
                    m, LoadCycles(mode, result.crossed), result.ok)
        Fetched(result) == Put(result, result.v % \h100)
    IN  Fetched(GetValue(c, m, mode))

\* CPU::sta, stx, sty: the u16 get_value returns is used as the address
Store(c, m, mode, register) ==
    LET Put(g) == Outcome(g.c, Write(m, g.v, g.c[register]), 0, g.ok)
    IN  Put(GetValue(c, m, mode))

\* CPU::transfer_accumulator_to(name, p, src, dest)
TransferAccumulatorTo(c, m, src, dest) ==
    Outcome([c EXCEPT ![dest] = src, !.p = SetZeroNegative(c.p, src)], m, 2, TRUE)

\* An arm of execute_next_instruction's match that calls an operation and
\* then yields its own cycle count
Arm(outcome, cycles) == [outcome EXCEPT !.cycles = cycles]

\* execute_next_instruction: the opcodes its match names
SupportedOpcodes ==
    {\h00, \h10, \h24, \h2C, \h4C, \h30, \h6C, \h78, \h81, \h84, \h85, \h86, \h88,
     \h8A, \h8C, \h8D, \h8E, \h90, \h94, \h91, \h95, \h96, \h98, \h99, \h9A, \h9D,
     \hA0, \hA1, \hA2, \hA4, \hA5, \hA6, \hA8, \hA9, \hAA, \hAC, \hAD, \hAE, \hB0,
     \hB1, \hB4, \hB5, \hB9, \hBA, \hBC, \hBD, \hBE, \hB6, \hC6, \hC8, \hCA, \hCE,
     \hD0, \hD6, \hD8, \hDE, \hE6, \hE8, \hEA, \hEE, \hF0, \hF6, \hFE}

\* execute_next_instruction: the match on the opcode, for an opcode other than
\* 0x00 and the default arm; c is the cpu after the opcode fetch
Dispatch(opcode, c, m) ==
    CASE opcode = \h10 -> Bpl(c, m)
      [] opcode = \h24 -> Arm(Bit(c, m, "ZeroPage"), 3)
      [] opcode = \h2C -> Arm(Bit(c, m, "Absolute"), 4)
      [] opcode = \h4C -> Arm(Jmp(c, m, "Absolute"), 3)
      [] opcode = \h30 -> Bmi(c, m)
      [] opcode = \h6C -> Arm(Jmp(c, m, "Indirect"), 5)
      [] opcode = \h78 -> Outcome([c EXCEPT !.p = SetBit(c.p, InterruptDisable, TRUE)], m, 2, TRUE)
      [] opcode = \h81 -> Arm(Store(c, m, "IndexedIndirect", "a"), 6)
      [] opcode = \h84 -> Arm(Store(c, m, "ZeroPage", "y"), 3)
      [] opcode = \h85 -> Arm(Store(c, m, "ZeroPage", "a"), 3)
      [] opcode = \h86 -> Arm(Store(c, m, "ZeroPage", "x"), 3)
      [] opcode = \h88 -> DecrementRegister(c, m, "y")
      [] opcode = \h8A -> TransferAccumulatorTo(c, m, c.a, "x")
      [] opcode = \h8C -> Arm(Store(c, m, "Absolute", "y"), 4)
      [] opcode = \h8D -> Arm(Store(c, m, "Absolute", "a"), 4)
      [] opcode = \h8E -> Arm(Store(c, m, "Absolute", "x"), 4)
      [] opcode = \h90 -> Bcc(c, m)
      [] opcode = \h94 -> Arm(Store(c, m, "ZeroPageX", "y"), 4)
      [] opcode = \h91 -> Arm(Store(c, m, "IndirectIndexed", "a"), 6)
      [] opcode = \h95 -> Arm(Store(c, m, "ZeroPageX", "a"), 4)
      [] opcode = \h96 -> Arm(Store(c, m, "ZeroPageY", "x"), 4)
      [] opcode = \h98 -> TransferAccumulatorTo(c, m, c.a, "y")
      [] opcode = \h99 -> Arm(Store(c, m, "AbsoluteY", "a"), 5)
      [] opcode = \h9A -> TransferAccumulatorTo(c, m, c.a, "s")
      [] opcode = \h9D -> Arm(Store(c, m, "AbsoluteX", "a"), 5)
      [] opcode = \hA0 -> LoadIntoRegister(c, m, "Immediate", "y")
      [] opcode = \hA1 -> LoadIntoRegister(c, m, "IndexedIndirect", "a")
      [] opcode = \hA2 -> LoadIntoRegister(c, m, "Immediate", "x")
      [] opcode = \hA4 -> LoadIntoRegister(c, m, "ZeroPage", "y")
      [] opcode = \hA5 -> LoadIntoRegister(c, m, "ZeroPage", "a")
      [] opcode = \hA6 -> LoadIntoRegister(c, m, "ZeroPage", "x")
      [] opcode = \hA8 -> TransferAccumulatorTo(c, m, c.a, "y")
      [] opcode = \hA9 -> LoadIntoRegister(c, m, "Immediate", "a")
      [] opcode = \hAA -> TransferAccumulatorTo(c, m, c.a, "x")
      [] opcode = \hAC -> LoadIntoRegister(c, m, "Absolute", "y")
      [] opcode = \hAD -> LoadIntoRegister(c, m, "Absolute", "a")
      [] opcode = \hAE -> LoadIntoRegister(c, m, "Absolute", "x")
      [] opcode = \hB0 -> Bcs(c, m)
      [] opcode = \hB1 -> LoadIntoRegister(c, m, "IndirectIndexed", "a")
      [] opcode = \hB4 -> LoadIntoRegister(c, m, "ZeroPageX", "y")
      [] opcode = \hB5 -> LoadIntoRegister(c, m, "ZeroPageX", "a")
      [] opcode = \hB9 -> LoadIntoRegister(c, m, "AbsoluteY", "a")
      [] opcode = \hBA -> TransferAccumulatorTo(c, m, c.a, "x")
      [] opcode = \hBC -> LoadIntoRegister(c, m, "AbsoluteX", "y")
      [] opcode = \hBD -> LoadIntoRegister(c, m, "AbsoluteX", "a")
      [] opcode = \hBE -> LoadIntoRegister(c, m, "AbsoluteY", "x")
      [] opcode = \hB6 -> LoadIntoRegister(c, m, "ZeroPageY", "x")
      [] opcode = \hC6 -> Arm(Dec(c, m, "ZeroPage"), 5)
      [] opcode = \hC8 -> IncrementRegister(c, m, "y")
      [] opcode = \hCA -> DecrementRegister(c, m, "x")
      [] opcode = \hCE -> Arm(Dec(c, m, "Absolute"), 6)
      [] opcode = \hD0 -> Bne(c, m)
      [] opcode = \hD6 -> Arm(Dec(c, m, "ZeroPageX"), 6)
      [] opcode = \hD8 -> Outcome([c EXCEPT !.p = SetBit(c.p, DecimalMode, FALSE)], m, 2, TRUE)
      [] opcode = \hDE -> Arm(Dec(c, m, "AbsoluteX"), 7)
      [] opcode = \hE6 -> Arm(Inc(c, m, "ZeroPage"), 5)
      [] opcode = \hE8 -> IncrementRegister(c, m, "x")
      [] opcode = \hEA -> Outcome(c, m, 2, TRUE)
      [] opcode = \hEE -> Arm(Inc(c, m, "Absolute"), 6)
      [] opcode = \hF0 -> Beq(c, m)
      [] opcode = \hF6 -> Arm(Inc(c, m, "ZeroPageX"), 6)
      [] opcode = \hFE -> Arm(Inc(c, m, "AbsoluteX"), 7)

\* execute_next_instruction: the addressing mode each arm of the match passes
\* to its operation ("Implied" for the arms that resolve no operand)
AddressingModeOf(opcode) ==
    CASE opcode \in {\h10, \h30, \h90, \hB0, \hD0, \hF0} -> "Relative"
      [] opcode \in {\h24, \h84, \h85, \h86, \hA4, \hA5, \hA6, \hC6, \hE6} -> "ZeroPage"
      [] opcode \in {\h2C, \h4C, \h8C, \h8D, \h8E, \hAC, \hAD, \hAE, \hCE, \hEE} -> "Absolute"
      [] opcode = \h6C -> "Indirect"
      [] opcode \in {\h81, \hA1} -> "IndexedIndirect"
      [] opcode \in {\h91, \hB1} -> "IndirectIndexed"
      [] opcode \in {\h94, \h95, \hB4, \hB5, \hD6, \hF6} -> "ZeroPageX"
      [] opcode \in {\h96, \hB6} -> "ZeroPageY"
      [] opcode \in {\h99, \hB9, \hBE} -> "AbsoluteY"
      [] opcode \in {\h9D, \hBC, \hBD, \hDE, \hFE} -> "AbsoluteX"
      [] opcode \in {\hA0, \hA2, \hA9} -> "Immediate"
      [] opcode \in {\h00, \h78, \h88, \h8A, \h98, \h9A, \hA8, \hAA, \hBA, \hC8, \hCA,
                     \hD8, \hE8, \hEA} -> "Implied"

\* How a call of execute_next_instruction ends
Ends(cpu_, ram_, cycles, how) ==
    [cpu |-> cpu_, ram |-> ram_, cycles |-> cycles, status |-> how]

\* execute_next_instruction, arm 0x00: println!("BRK"); std::process::exit(0)
Brk(c, m) == Ends(c, m, 0, "exit0")

\* execute_next_instruction, default arm: eprintln!(..); std::process::exit(1)
UnknownOpcode(c, m) == Ends(c, m, 0, "exit1")

\* CPU::execute_next_instruction: the cpu and ram it leaves, the cycles it
\* returns (0 when it does not return) and how it ends: "running" when it
\* returns, "exit0" for std::process::exit(0), "exit1" for
\* std::process::exit(1), "panic" for an arithmetic overflow panic.  A panic
\* ends the process: the state the step began with is kept.
ExecuteNextInstruction(c, m) ==
    LET Completed(o) ==
            IF o.ok THEN Ends(o.c, o.m, o.cycles, "running") ELSE Ends(c, m, 0, "panic")
        Match(opcode, c1) ==
            IF opcode = \h00 THEN Brk(c1, m)
            ELSE IF opcode \notin SupportedOpcodes THEN UnknownOpcode(c1, m)
            ELSE Completed(Dispatch(opcode, c1, m))
        Fetched(f) == IF f.ok THEN Match(f.v, f.c) ELSE Ends(c, m, 0, "panic")
    IN  Fetched(ReadNextByte(c, m))

----------------------------------------------------------------------------
(* nes.rs *)

CYCLES_PER_FRAME == 29781

----------------------------------------------------------------------------
(* The cartridges the model is run on *)

\* The sparse form of a byte array: the indices of its nonzero bytes
NonZero(f) == [i \in {j \in DOMAIN f : f[j] # 0} |-> f[i]]

\* An iNES file with `pages` 16KB PRG pages (classic header), a trainer when
\* `trainer`, whose PRG holds `code` at CPU address org and the reset vector
\* `reset` in its last page
Cart(pages, trainer, org, code, reset) ==
    LET skip == IF trainer THEN 512 ELSE 0
        prg == pages * PRG_PAGE_SIZE
        off(addr) == skip + ((addr - CPU_ROM_START_ADDRESS) % prg)
        codeAt == {org + i - 1 : i \in 1..Len(code)}
        bytes == [o \in {off(a) : a \in codeAt \cup {\hFFFC, \hFFFD}} |->
                    IF o = off(\hFFFC) THEN reset % \h100
                    ELSE IF o = off(\hFFFD) THEN reset \div \h100
                    ELSE code[CHOOSE i \in 1..Len(code) : off(org + i - 1) = o]]
    IN  [header |-> <<\h4E, \h45, \h53, \h1A, pages, 0, IF trainer THEN 4 ELSE 0,
                      0, 0, 0, 0, 0, 0, 0, 0, 0>>,
         data |-> NonZero(bytes),
         size |-> skip + prg]

\* Instructions that prepare registers, flags and zero page for the one under test
Prefixes ==
    {<< >>,
     <<\hA2, \h01>>, <<\hA2, \hFF>>, <<\hA0, \h01>>, <<\hA0, \hFF>>,
     <<\hA9, \h00>>, <<\hA9, \h80>>, <<\hA9, \h7F>>,
     <<\hA9, \h80, \hA2, \h01, \hA0, \h7F>>,
     <<\hA9, \hFF, \h85, \h00, \hA0, \h01>>,
     <<\hA9, \hFF, \h85, \h00, \hA2, \hFF>>,
     <<\h78, \h2C, \h00, \h80>>}

\* The opcode bytes and operand bytes of the instruction under test
TestOpcodes == SupportedOpcodes \cup {\h02, \hFF}
LowBytes == {\h00, \h01, \h7F, \h80, \hFF}
HighBytes == {\h00, \h80, \hFF}

Programs ==
    {pre \o <<op, lo, hi>> : pre \in Prefixes,
                             op \in TestOpcodes, lo \in LowBytes, hi \in HighBytes}

\* Programs that end at the top of the address space, with the address they start at
EdgePrograms ==
    {<<\hFFFA, <<op, b>>>> : op \in {\h10, \h30, \hEA, \hA9}, b \in {\h7F, \h80}}
    \cup {<<\hFFFE, <<op, b>>>> : op \in {\hEA, \hA9, \hAD, \h10, \h4C}, b \in {\h00, \hEA}}
    \cup {<<\hFFFF, <<op>>>> : op \in {\hEA, \hA9, \hAD, \hE8, \hFF}}

Carts ==
    {Cart(1, FALSE, CPU_ROM_START_ADDRESS, code, CPU_ROM_START_ADDRESS) : code \in Programs}
    \cup {Cart(2, trainer, e[1], e[2], e[1]) : e \in EdgePrograms, trainer \in BOOLEAN}

----------------------------------------------------------------------------
(* The program: main builds NES::new(file) and calls run *)

MaxSteps == 8
MaxIterations == 3

\* NES::new(rom_file), then run up to its first call of execute_instructions
InitOn(carts) ==
    \E file \in carts, checks \in BOOLEAN :
        /\ ~FromFilePanics(file)
        /\ rom_file = file
        /\ overflowChecks = checks
        /\ ram = FromFile(file)
        /\ cpu = FromRam(FromFile(file))
        /\ status = "running"
        /\ last = [opcode |-> -1, cpu |-> FromRam(FromFile(file)),
                   ram |-> FromFile(file), cycles |-> 0]
        /\ run_n_cycles = CYCLES_PER_FRAME
        /\ n_instructions = CYCLES_PER_FRAME
        /\ n_cycles = 0
        /\ iterations = 0
        /\ total_cycles = 0
        /\ steps = 0
        /\ wrote = << >>

Init == InitOn(Carts)

\* the loop of execute_instructions as `while n_cycles <= n_instructions`
StepWhileNotAbove ==
    /\ status = "running"
    /\ n_cycles <= n_instructions
    /\ \E r \in {ExecuteNextInstruction(cpu, ram)} :
           /\ cpu' = r.cpu
           /\ ram' = r.ram
           /\ status' = r.status
           /\ last' = [opcode |-> Read(ram, cpu.pc), cpu |-> cpu, ram |-> ram,
                       cycles |-> r.cycles]
           /\ n_cycles' = n_cycles + r.cycles
           /\ total_cycles' = total_cycles + r.cycles
           /\ steps' = steps + 1
    /\ UNCHANGED <<rom_file, overflowChecks, n_instructions, run_n_cycles, iterations,
                   wrote>>

\* execute_instructions: one turn of `while n_cycles < n_instructions`, that is
\* n_cycles += self.execute_next_instruction(ram)
Step ==
    /\ status = "running"
    /\ n_cycles < n_instructions
    /\ \E r \in {ExecuteNextInstruction(cpu, ram)} :
           /\ cpu' = r.cpu
           /\ ram' = r.ram
           /\ status' = r.status
           /\ last' = [opcode |-> Read(ram, cpu.pc), cpu |-> cpu, ram |-> ram,
                       cycles |-> r.cycles]
           /\ n_cycles' = n_cycles + r.cycles
           /\ total_cycles' = total_cycles + r.cycles
           /\ steps' = steps + 1
    /\ UNCHANGED <<rom_file, overflowChecks, n_instructions, run_n_cycles, iterations,
                   wrote>>

\* The first MaxSteps steps of the program
FirstSteps == steps < MaxSteps /\ Step

Next == FirstSteps

Spec == Init /\ [][Next]_vars

\* execute_instructions leaves its loop and returns n_cycles; run stores
\* n_cycles % CYCLES_PER_FRAME in its own n_cycles and calls
\* execute_instructions again with that budget
Return ==
    /\ status = "running"
    /\ n_cycles >= n_instructions
    /\ iterations < MaxIterations
    /\ run_n_cycles' = n_cycles % CYCLES_PER_FRAME
    /\ n_instructions' = n_cycles % CYCLES_PER_FRAME
    /\ n_cycles' = 0
    /\ steps' = 0
    /\ iterations' = iterations + 1
    /\ UNCHANGED <<rom_file, overflowChecks, cpu, ram, status, last, total_cycles,
                   wrote>>

\* Programs that keep the CPU running: BPL to itself; INX, BNE back to the INX,
\* BEQ back to the INX; LDA $7F03,X with X = $FF, BMI back to the LDA
LoopPrograms ==
    {<<\h10, \hFE>>,
     <<\hE8, \hD0, \hFD, \hF0, \hFB>>,
     <<\hA2, \hFF, \hBD, \h03, \h7F, \h30, \hFB>>}

RunCarts ==
    {Cart(1, FALSE, CPU_ROM_START_ADDRESS, code, CPU_ROM_START_ADDRESS) :
        code \in LoopPrograms}

InitRun == InitOn(RunCarts)

NextRun == Step \/ Return

SpecRun == InitRun /\ [][NextRun]_vars

----------------------------------------------------------------------------
(* The last step, as the properties below read it *)

\* The last step was a call of execute_next_instruction that returned
Returned == last.opcode # -1 /\ status = "running"

JumpOpcodes == {\h4C, \h6C}
BranchOpcodes == {\h10, \h30, \h90, \hB0, \hD0, \hF0}

\* The condition of branch opcode op holds in status register p
BranchCondition(op, p) ==
    CASE op = \h10 -> ~GetBit(p, Negative)
      [] op = \h30 -> GetBit(p, Negative)
      [] op = \h90 -> ~GetBit(p, Carry)
      [] op = \hB0 -> GetBit(p, Carry)
      [] op = \hD0 -> ~GetBit(p, Zero)
      [] op = \hF0 -> GetBit(p, Zero)

\* The last step was a branch whose condition held
BranchTaken == last.opcode \in BranchOpcodes /\ BranchCondition(last.opcode, last.cpu.p)

\* The byte and the little-endian word that follow the last step's opcode
OperandByte == Read(last.ram, Add16(last.cpu.pc, 1))
OperandWord == OperandByte + \h100 * Read(last.ram, Add16(last.cpu.pc, 2))

----------------------------------------------------------------------------
(* C1 *)

\* The operand bytes of an addressing mode
OperandBytes(mode) ==
    CASE mode \in {"Implied", "Accumulator"} -> 0
      [] mode \in {"Immediate", "ZeroPage", "ZeroPageX", "ZeroPageY",
                   "IndexedIndirect", "IndirectIndexed", "Relative"} -> 1
      [] mode \in {"Absolute", "AbsoluteX", "AbsoluteY"} -> 2

\* C1: a step of a supported opcode that is neither a jump nor a taken branch
\* leaves PC at its value before the step plus 1 plus the operand bytes of
\* the opcode's addressing mode (PC is a u16: the sum is taken modulo 2^16).
C1_PcAdvancesByLength ==
    (Returned /\ last.opcode \notin JumpOpcodes /\ ~BranchTaken)
        => cpu.pc = (last.cpu.pc + 1 + OperandBytes(AddressingModeOf(last.opcode))) % \h10000

\* A step with two operand bytes (LDA absolute,X) has returned, 3 bytes on
C1_Witness ==
    /\ Returned /\ last.opcode = \hBD
    /\ cpu.pc = last.cpu.pc + 3

----------------------------------------------------------------------------
(* C2 *)

\* C2: after JMP Absolute (0x4C) PC is the 16-bit little-endian operand that
\* follows the opcode.
C2_JmpAbsoluteTarget ==
    (Returned /\ last.opcode = \h4C) => cpu.pc = OperandWord

----------------------------------------------------------------------------
(* C3 *)

\* C3: after k >= 1 completed iterations of run's loop the cycles executed in
\* total lie between k * 29781 and k * 29781 + 6.
C3_FramePacing ==
    (iterations >= 1 /\ steps = 0)
        => /\ total_cycles >= iterations * CYCLES_PER_FRAME
           /\ total_cycles <= iterations * CYCLES_PER_FRAME + 6

----------------------------------------------------------------------------
(* C4: RAM on its own, RAM::new() followed by any writes *)

WriteAddresses == {\h0000, \h0800, \h1FFF, \h2000, \h2008, \h3FFF, \h4000}
WriteData == {\h00, \h42}

\* No cartridge file: RAM::new() is used in place of RAM::from_file
NoFile == [header |-> << >>, data |-> NewRam, size |-> 0]

InitRam ==
    /\ rom_file = NoFile
    /\ overflowChecks = FALSE
    /\ ram = NewRam
    /\ cpu = FromRam(NewRam)
    /\ status = "running"
    /\ last = [opcode |-> -1, cpu |-> FromRam(NewRam), ram |-> NewRam, cycles |-> 0]
    /\ run_n_cycles = CYCLES_PER_FRAME
    /\ n_instructions = CYCLES_PER_FRAME
    /\ n_cycles = 0
    /\ iterations = 0
    /\ total_cycles = 0
    /\ steps = 0
    /\ wrote = << >>

\* ram.write(addr, data)
WriteRam ==
    \E addr \in WriteAddresses, data \in WriteData :
        /\ ram' = Write(ram, addr, data)
        /\ wrote' = <<addr, data>>
        /\ UNCHANGED <<rom_file, overflowChecks, cpu, status, last, n_instructions,
                       n_cycles, run_n_cycles, iterations, total_cycles, steps>>

NextRam == WriteRam

SpecRam == InitRam /\ [][NextRam]_vars

\* The addresses of the mirrored group of address a
Aliases(a) ==
    IF a <= \h1FFF THEN {b \in 0..\h1FFF : b % \h800 = a % \h800}
    ELSE IF a <= \h3FFF THEN {b \in \h2000..\h3FFF : b % 8 = a % 8}
    ELSE {a}

\* C4: after any writes, read(a) = read(a mod 0x800) for a in $0800-$1FFF and
\* read(a) = read($2000 + a mod 8) for a in $2008-$3FFF, and the last write is
\* read back through every alias of the address written.
C4_Mirroring ==
    /\ \A a \in \h0800..\h1FFF : Read(ram, a) = Read(ram, a % \h800)
    /\ \A a \in \h2008..\h3FFF : Read(ram, a) = Read(ram, \h2000 + (a % 8))
    /\ wrote # << >> => \A b \in Aliases(wrote[1]) : Read(ram, b) = wrote[2]

\* $42 was written through the alias $3FFF of $2007 while $0000 holds $42
C4_Witness ==
    /\ wrote = <<\h3FFF, \h42>>
    /\ Read(ram, \h2007) = \h42
    /\ Read(ram, \h1800) = \h42

----------------------------------------------------------------------------
(* C5, C6 *)

\* C5: a step whose opcode byte is not in the dispatch table ends in the
\* unknown-opcode fault, nothing executes after it, and no register, flag or
\* memory cell has changed except PC, which is one past the opcode byte.
C5_UnknownOpcodeFaults ==
    (last.opcode # -1 /\ last.opcode \notin SupportedOpcodes)
        => /\ status = "exit1"
           /\ ~ENABLED Step
           /\ cpu = [last.cpu EXCEPT !.pc = (last.cpu.pc + 1) % \h10000]
           /\ ram = last.ram

\* C6: execution ends only in a fatal fault; no byte fetched as an opcode
\* makes the core shut down with status 0.
C6_NeverExitsNormally == status \in {"running", "exit1", "panic"}

----------------------------------------------------------------------------
(* C7 *)

\* The signed offset of the last step's operand byte
Offset == IF OperandByte >= \h80 THEN OperandByte - \h100 ELSE OperandByte

\* The address of the instruction that follows a two-byte instruction
NextInstruction == (last.cpu.pc + 2) % \h10000

\* The target of the last step, a branch
BranchTarget == (last.cpu.pc + 2 + Offset) % \h10000

\* C7: a branch step returns 2 cycles when its condition is false, 3 when it
\* is taken to the page of the instruction that follows it, 4 when it is taken
\* to another page.
C7_BranchCycles ==
    (Returned /\ last.opcode \in BranchOpcodes)
        => last.cycles =
             IF ~BranchTaken THEN 2
             ELSE IF BranchTarget \div \h100 = NextInstruction \div \h100 THEN 3
             ELSE 4

\* BMI was taken to another page
C7_Witness ==
    /\ Returned /\ last.opcode = \h30 /\ BranchTaken
    /\ cpu.pc = BranchTarget /\ last.cycles = 4

----------------------------------------------------------------------------
(* C8 *)

AbsoluteXLoads == {\hBC, \hBD}
AbsoluteYLoads == {\hB9, \hBE}

\* The index register an AbsoluteX or AbsoluteY load adds to its base
IndexValue == IF last.opcode \in AbsoluteXLoads THEN last.cpu.x ELSE last.cpu.y

\* The word an IndirectIndexed operand points to in zero page
PointedWord ==
    Read(last.ram, OperandByte) + \h100 * Read(last.ram, OperandByte + 1)

HighByte(w) == (w % \h10000) \div \h100

\* C8: a load in AbsoluteX or AbsoluteY mode with base B and index I returns
\* 5 cycles when the high byte of B + I differs from the high byte of B and 4
\* otherwise; LDA in IndirectIndexed mode returns 6 when adding Y to the
\* pointed-to word changes its high byte and 5 otherwise.
C8_PageCrossingCycles ==
    /\ (Returned /\ last.opcode \in AbsoluteXLoads \cup AbsoluteYLoads)
          => last.cycles =
               IF HighByte(OperandWord + IndexValue) # HighByte(OperandWord)
               THEN 5 ELSE 4
    /\ (Returned /\ last.opcode = \hB1)
          => last.cycles =
               IF HighByte(PointedWord + last.cpu.y) # HighByte(PointedWord)
               THEN 6 ELSE 5

\* LDA $80FF,X with X = 1 returned 5 cycles
C8_Witness ==
    /\ Returned /\ last.opcode = \hBD /\ OperandWord = \h80FF
    /\ last.cpu.x = 1 /\ last.cycles = 5

----------------------------------------------------------------------------
(* C9 *)

LdaOpcodes == {\hA1, \hA5, \hA9, \hAD, \hB1, \hB5, \hB9, \hBD}
LdxOpcodes == {\hA2, \hA6, \hAE, \hB6, \hBE}
LdyOpcodes == {\hA0, \hA4, \hAC, \hB4, \hBC}
LoadOpcodes == LdaOpcodes \cup LdxOpcodes \cup LdyOpcodes

\* The byte the last step's addressing mode designates in the memory the
\* step started from
LoadedValue ==
    LET mode == AddressingModeOf(last.opcode)
    IN  CASE mode = "Immediate" -> OperandByte
          [] mode = "ZeroPage" -> Read(last.ram, OperandByte)
          [] mode = "ZeroPageX" -> Read(last.ram, (OperandByte + last.cpu.x) % \h100)
          [] mode = "ZeroPageY" -> Read(last.ram, (OperandByte + last.cpu.y) % \h100)
          [] mode = "Absolute" -> Read(last.ram, OperandWord)
          [] mode = "AbsoluteX" -> Read(last.ram, (OperandWord + last.cpu.x) % \h10000)
          [] mode = "AbsoluteY" -> Read(last.ram, (OperandWord + last.cpu.y) % \h10000)
          [] mode = "IndexedIndirect" ->
                 Read(last.ram, (OperandByte + last.cpu.x) % \h100)
          [] mode = "IndirectIndexed" ->
                 Read(last.ram, (PointedWord + last.cpu.y) % \h10000)

\* The register the last step, a load, targets
TargetRegister ==
    IF last.opcode \in LdaOpcodes THEN "a"
    ELSE IF last.opcode \in LdxOpcodes THEN "x" ELSE "y"

\* C9: after a load step the target register holds the loaded value, Zero
\* says that value is 0, Negative is its bit 7, every other flag bit and the
\* two other registers are as before the step.
C9_LoadSetsZeroNegative ==
    (Returned /\ last.opcode \in LoadOpcodes)
        => /\ cpu[TargetRegister] = LoadedValue
           /\ GetBit(cpu.p, Zero) = (LoadedValue = 0)
           /\ GetBit(cpu.p, Negative) = GetBit(LoadedValue, 7)
           /\ \A bit \in (0..7) \ {Zero, Negative} :
                  GetBit(cpu.p, bit) = GetBit(last.cpu.p, bit)
           /\ \A register \in {"a", "x", "y"} \ {TargetRegister} :
                  cpu[register] = last.cpu[register]

\* LDA #$80 ran with Zero, Overflow and InterruptDisable set: Zero cleared,
\* Negative set, the two others kept
C9_Witness ==
    /\ Returned /\ last.opcode = \hA9 /\ cpu.a = \h80
    /\ GetBit(last.cpu.p, Zero) /\ ~GetBit(cpu.p, Zero) /\ GetBit(cpu.p, Negative)
    /\ GetBit(cpu.p, Overflow) /\ GetBit(cpu.p, InterruptDisable)

----------------------------------------------------------------------------
(* C10 *)

\* No instruction has run since CPU::from_ram
Constructed == status = "running" /\ last.opcode = -1 /\ iterations = 0

\* C10: right after construction PC is the little-endian word at $FFFC (low
\* byte) and $FFFD (high byte), and A, X and Y are 0.
C10_ResetVector ==
    Constructed
        => /\ cpu.pc = Read(ram, \hFFFC) + \h100 * Read(ram, \hFFFD)
           /\ cpu.a = 0 /\ cpu.x = 0 /\ cpu.y = 0

\* A cartridge with 00 80 at $FFFC/$FFFD was loaded and PC is $8000
C10_Witness ==
    /\ Constructed /\ Read(ram, \hFFFC) = \h00 /\ Read(ram, \hFFFD) = \h80
    /\ cpu.pc = \h8000

----------------------------------------------------------------------------
(* C11 *)

\* C11: right after construction S is $FD and P is $24: InterruptDisable and
\* bit 5 set, every other flag clear.
C11_ResetStackAndStatus ==
    Constructed => cpu.s = \hFD /\ cpu.p = \h24

----------------------------------------------------------------------------
(* C12, C13: the loader on its own, main up to the return of NES::new *)

\* File offsets (from file byte 16) at the edges of the trainer and of the
\* PRG pages, and the byte a test file holds there
MarkOffsets ==
    {0, 1, 511, 512, 513, \h3FFF, \h4000, \h41FF, \h4200, \h7FFF, \h8000,
     \h81FF, \h8200, \hBFFF, \hC000, \hC1FF}
MarkByte(o) == (o % 251) + 1

\* A file of 16 + size bytes with the given magic and header bytes 4, 6, 7, 9
LoadFile(magic, h4, h6, h7, h9, size) ==
    [header |-> magic \o <<h4, 0, h6, h7, 0, h9, 0, 0, 0, 0, 0, 0>>,
     data |-> [o \in {m \in MarkOffsets : m < size} |-> MarkByte(o)],
     size |-> size]

\* The bytes a header asks for after the first 16: trainer and PRG pages
Needed(h4, h6, h7, h9) ==
    (IF h6 = 4 THEN 512 ELSE 0)
    + (IF h7 = 8 THEN (h9 % 16) * 256 + h4 ELSE h4) * PRG_PAGE_SIZE

LoadFiles ==
    {LoadFile(magic, h[1], h[2], h[3], h[4], size) :
        magic \in {<<\h4E, \h45, \h53, \h1A>>, <<\h4E, \h45, \h53, \h1B>>},
        h \in {0, 1, 2, 3} \X {0, 4} \X {0, 8} \X {0, 1, \h10},
        size \in {0, 511, \h4000, \h41FF, \h4200, \h8000, \h8200, \hC000, \hC200}}
    \cup {LoadFile(<<\h4E, \h45, \h53, \h1A>>, h[1], h[2], h[3], h[4],
                   Needed(h[1], h[2], h[3], h[4]) + extra) :
        h \in {0, 1, 2, 3} \X {0, 4} \X {0, 8} \X {0, 1, \h10},
        extra \in {0, \h2000}}
    \cup {[header |-> <<\h4E, \h45, \h53, \h1A, 1>>, data |-> NewRam, size |-> 0]}

InitLoad ==
    \E file \in LoadFiles, checks \in BOOLEAN :
        /\ rom_file = file
        /\ overflowChecks = checks
        /\ ram = NewRam
        /\ cpu = FromRam(NewRam)
        /\ status = "loading"
        /\ last = [opcode |-> -1, cpu |-> FromRam(NewRam), ram |-> NewRam, cycles |-> 0]
        /\ run_n_cycles = CYCLES_PER_FRAME
        /\ n_instructions = CYCLES_PER_FRAME
        /\ n_cycles = 0
        /\ iterations = 0
        /\ total_cycles = 0
        /\ steps = 0
        /\ wrote = << >>

\* NES::new(rom_file): RAM::from_file, then CPU::from_ram on what it returns
Load ==
    /\ status = "loading"
    /\ IF FromFilePanics(rom_file)
       THEN /\ status' = "panic"
            /\ UNCHANGED <<cpu, ram, last>>
       ELSE /\ status' = "running"
            /\ ram' = FromFile(rom_file)
            /\ cpu' = FromRam(FromFile(rom_file))
            /\ last' = [opcode |-> -1, cpu |-> FromRam(FromFile(rom_file)),
                        ram |-> FromFile(rom_file), cycles |-> 0]
    /\ UNCHANGED <<rom_file, overflowChecks, n_instructions, n_cycles, run_n_cycles,
                   iterations, total_cycles, steps, wrote>>

NextLoad == Load

SpecLoad == InitLoad /\ [][NextLoad]_vars

\* The byte of the file at offset o from file byte 16
FileByte(file, o) == IF o \in DOMAIN file.data THEN file.data[o] ELSE 0

\* Where the PRG bytes start in the file, from file byte 16
TrainerSkip(file) == IF (file.header[7] \div 4) % 2 = 1 THEN 512 ELSE 0

\* The k-th PRG byte of the file
PrgByte(file, k) == FileByte(file, TrainerSkip(file) + k)

\* The number of 16KB PRG pages the header declares
DeclaredPages(file) ==
    IF (file.header[8] \div 4) % 4 = 2
    THEN (file.header[10] % 16) * 256 + file.header[5]
    ELSE file.header[5]

\* C12: after loading a cartridge that declares one PRG page, the cells at
\* $8000 + k and $C000 + k both hold the k-th PRG byte of the file, for every
\* k in 0..$3FFF; the PRG bytes start at file offset 16, or 16 + 512 when bit 2
\* of header byte 6 is set.
C12_SinglePageMirrored ==
    (Constructed /\ DeclaredPages(rom_file) = 1)
        => \A k \in 0..\h3FFF :
               /\ Read(ram, \h8000 + k) = PrgByte(rom_file, k)
               /\ Read(ram, \hC000 + k) = PrgByte(rom_file, k)

\* A one-page cartridge with a trainer was loaded: the last PRG byte, at file
\* offset 16 + 512 + $3FFF, is at $BFFF and at $FFFF
C12_Witness ==
    /\ Constructed /\ DeclaredPages(rom_file) = 1 /\ TrainerSkip(rom_file) = 512
    /\ Read(ram, \hBFFF) = MarkByte(\h41FF) /\ Read(ram, \hFFFF) = MarkByte(\h41FF)
    /\ Read(ram, \h8000) = MarkByte(512)


\* The PRG bytes the file holds: those that follow its header and trainer
PrgBytesInFile(file) ==
    IF file.size > TrainerSkip(file) THEN file.size - TrainerSkip(file) ELSE 0

\* C13: loading fails and leaves no memory to run on whenever the magic is not
\* 4E 45 53 1A, the file holds fewer PRG bytes than its header declares, or the
\* header declares more than two PRG pages; a load that returns holds every
\* declared PRG byte from $8000 on.
C13_BadCartridgeRejected ==
    (status # "loading" /\ Len(rom_file.header) = 16)
        => /\ (\/ SubSeq(rom_file.header, 1, 4) # <<\h4E, \h45, \h53, \h1A>>
               \/ PrgBytesInFile(rom_file) < DeclaredPages(rom_file) * \h4000
               \/ DeclaredPages(rom_file) > 2)
                  => (status = "panic" /\ ram = NewRam /\ ~ENABLED Step)
           /\ status = "running"
                  => \A k \in 0..(DeclaredPages(rom_file) * \h4000 - 1) :
                         Read(ram, \h8000 + k) = PrgByte(rom_file, k)

\* A file with a good magic that declares three PRG pages and holds them all
\* was rejected
C13_Witness ==
    /\ status = "panic" /\ Len(rom_file.header) = 16
    /\ SubSeq(rom_file.header, 1, 4) = <<\h4E, \h45, \h53, \h1A>>
    /\ DeclaredPages(rom_file) = 3
    /\ PrgBytesInFile(rom_file) = 3 * \h4000

----------------------------------------------------------------------------
(* C14 *)

\* The last step was a branch whose offset byte was fetched and whose target,
\* PC after that fetch plus the signed offset, is not a 16-bit address
UnrepresentableTarget ==
    /\ last.opcode \in BranchOpcodes
    /\ last.cpu.pc + 2 <= \hFFFF
    /\ last.cpu.pc + 2 + Offset \notin 0..\hFFFF

\* C14: a branch whose target is below 0 or above $FFFF ends in an
\* arithmetic-overflow fault, which is not the unknown-opcode fault, and PC is
\* not set to the target wrapped around.
C14_BranchOverflowFaults ==
    UnrepresentableTarget => (status = "panic" /\ cpu.pc # BranchTarget)

----------------------------------------------------------------------------
(* C15 *)

StoreOpcodes == {\h84, \h85, \h86, \h8C, \h8D, \h8E}
IncOpcodes == {\hE6, \hEE}
DecOpcodes == {\hC6, \hCE}

\* The address a ZeroPage or Absolute operand designates
EffectiveAddress ==
    IF AddressingModeOf(last.opcode) = "ZeroPage" THEN OperandByte ELSE OperandWord

\* The byte the last step, a store or a read-modify-write, has to write
ByteToWrite ==
    CASE last.opcode \in {\h85, \h8D} -> last.cpu.a
      [] last.opcode \in {\h86, \h8E} -> last.cpu.x
      [] last.opcode \in {\h84, \h8C} -> last.cpu.y
      [] last.opcode \in IncOpcodes -> (Read(last.ram, EffectiveAddress) + 1) % \h100
      [] last.opcode \in DecOpcodes -> (Read(last.ram, EffectiveAddress) - 1) % \h100

\* C15: a store or INC/DEC step with a ZeroPage or Absolute operand writes the
\* register, or the old byte plus or minus 1 modulo 256, to the address the
\* operand designates and changes no other cell; INC and DEC set Zero and
\* Negative from the byte written.
C15_WritesEffectiveAddress ==
    (Returned /\ last.opcode \in StoreOpcodes \cup IncOpcodes \cup DecOpcodes)
        => /\ ram = Write(last.ram, EffectiveAddress, ByteToWrite)
           /\ last.opcode \in IncOpcodes \cup DecOpcodes
                 => /\ GetBit(cpu.p, Zero) = (ByteToWrite = 0)
                    /\ GetBit(cpu.p, Negative) = GetBit(ByteToWrite, 7)

----------------------------------------------------------------------------
(* C16 *)

TransferOpcodes == {\h8A, \h98, \hAA, \hA8, \hBA, \h9A}

\* The source and the destination register of a transfer opcode
TransferSource(opcode) ==
    CASE opcode \in {\h8A, \h9A} -> "x"
      [] opcode = \h98 -> "y"
      [] opcode \in {\hAA, \hA8} -> "a"
      [] opcode = \hBA -> "s"
TransferDestination(opcode) ==
    CASE opcode \in {\h8A, \h98} -> "a"
      [] opcode \in {\hAA, \hBA} -> "x"
      [] opcode = \hA8 -> "y"
      [] opcode = \h9A -> "s"

\* C16: a transfer step copies its source register into its destination
\* register (TXA A := X, TYA A := Y, TAX X := A, TAY Y := A, TSX X := S,
\* TXS S := X), leaves the source as it was, sets Zero and Negative from the
\* value transferred and returns 2 cycles.
C16_TransferCopiesSource ==
    (Returned /\ last.opcode \in TransferOpcodes)
        => /\ cpu[TransferDestination(last.opcode)] = last.cpu[TransferSource(last.opcode)]
           /\ cpu[TransferSource(last.opcode)] = last.cpu[TransferSource(last.opcode)]
           /\ GetBit(cpu.p, Zero) = (last.cpu[TransferSource(last.opcode)] = 0)
           /\ GetBit(cpu.p, Negative) = GetBit(last.cpu[TransferSource(last.opcode)], 7)
           /\ last.cycles = 2

----------------------------------------------------------------------------
(* C17 *)

ZeroPageXOpcodes == {\h94, \h95, \hB4, \hB5, \hD6, \hF6}
ZeroPageYOpcodes == {\h96, \hB6}

\* The last step was in ZeroPageX or ZeroPageY mode and fetched its operand
ZeroPageIndexedStep ==
    /\ last.opcode \in ZeroPageXOpcodes \cup ZeroPageYOpcodes
    /\ last.cpu.pc + 2 <= \hFFFF

\* C17: a step in ZeroPageX or ZeroPageY mode completes normally whatever the
\* operand and the index, and its effective address is (operand + index) mod
\* 256: a load gets the byte at that address.
C17_ZeroPageIndexWraps ==
    ZeroPageIndexedStep
        => /\ status = "running"
           /\ last.opcode \in LoadOpcodes => cpu[TargetRegister] = LoadedValue

----------------------------------------------------------------------------
(* C18 *)

BitOpcodes == {\h24, \h2C}

\* The memory operand the last step, a BIT, fetched
BitOperand ==
    Read(last.ram, IF last.opcode = \h24 THEN OperandByte ELSE OperandWord)

\* C18: after a BIT step with memory operand m, Zero says A AND m is 0,
\* Overflow is bit 6 of m and Negative bit 7 of m; A, X, Y, S, the other flag
\* bits and memory are as before; the step returns 3 cycles in ZeroPage mode
\* and 4 in Absolute mode.
C18_BitFlags ==
    (Returned /\ last.opcode \in BitOpcodes)
        => /\ GetBit(cpu.p, Zero) = (BitAnd(last.cpu.a, BitOperand) = 0)
           /\ GetBit(cpu.p, Overflow) = GetBit(BitOperand, 6)
           /\ GetBit(cpu.p, Negative) = GetBit(BitOperand, 7)
           /\ \A bit \in (0..7) \ {Zero, Overflow, Negative} :
                  GetBit(cpu.p, bit) = GetBit(last.cpu.p, bit)
           /\ \A register \in {"a", "x", "y", "s"} : cpu[register] = last.cpu[register]
           /\ ram = last.ram
           /\ last.cycles = IF last.opcode = \h24 THEN 3 ELSE 4

\* BIT $8000 ran with A = 0 on the byte $78: Zero and Overflow set, Negative
\* clear, InterruptDisable kept
C18_Witness ==
    /\ Returned /\ last.opcode = \h2C /\ BitOperand = \h78 /\ last.cpu.a = 0
    /\ GetBit(cpu.p, Zero) /\ GetBit(cpu.p, Overflow) /\ ~GetBit(cpu.p, Negative)
    /\ GetBit(cpu.p, InterruptDisable) /\ ~GetBit(last.cpu.p, Overflow)

----------------------------------------------------------------------------
(* C19 *)

\* C19: a branch step leaves the flags, A, X, Y, S and memory as they were;
\* PC becomes the address of the byte after the offset operand, plus the
\* signed offset when the condition of the branch holds.
C19_BranchFrame ==
    (Returned /\ last.opcode \in BranchOpcodes)
        => /\ cpu.p = last.cpu.p
           /\ \A register \in {"a", "x", "y", "s"} : cpu[register] = last.cpu[register]
           /\ ram = last.ram
           /\ cpu.pc = IF BranchTaken THEN NextInstruction + Offset
                       ELSE NextInstruction

----------------------------------------------------------------------------
(* C20 *)

\* execute_instructions is about to return to run
CallReturns == status = "running" /\ n_cycles >= n_instructions

\* C20: every call of execute_instructions made by run's loop executes at
\* least one instruction before it returns, so the loop never turns without
\* stepping the CPU.
C20_EveryIterationSteps == CallReturns => steps >= 1

----------------------------------------------------------------------------
(* C21: one call execute_instructions(ram, n) on a constructed engine *)

\* The budgets n the call is given
Budgets == {1, 2, 8}

InitCall ==
    \E file \in Carts, checks \in BOOLEAN, n \in Budgets :
        /\ ~FromFilePanics(file)
        /\ rom_file = file
        /\ overflowChecks = checks
        /\ ram = FromFile(file)
        /\ cpu = FromRam(FromFile(file))
        /\ status = "running"
        /\ last = [opcode |-> -1, cpu |-> FromRam(FromFile(file)),
                   ram |-> FromFile(file), cycles |-> 0]
        /\ run_n_cycles = n
        /\ n_instructions = n
        /\ n_cycles = 0
        /\ iterations = 0
        /\ total_cycles = 0
        /\ steps = 0
        /\ wrote = << >>

NextCall == Step

SpecCall == InitCall /\ [][NextCall]_vars

\* C21: a step that returns costs 2 to 7 cycles; a call with budget n >= 1
\* takes at most ceil(n / 2) steps and, when it returns, has accumulated
\* between n and n + 6 cycles.
C21_CallCost ==
    /\ Returned => last.cycles \in 2..7
    /\ n_instructions >= 1 => steps <= (n_instructions + 1) \div 2
    /\ (CallReturns /\ n_instructions >= 1)
          => (n_cycles >= n_instructions /\ n_cycles <= n_instructions + 6)

\* A call with budget 8 returned 14 cycles: the last step of 7 cycles started
\* one cycle below the budget
C21_Witness ==
    /\ CallReturns /\ n_instructions = 8 /\ n_cycles = 14
    /\ last.cycles = 7 /\ steps >= 2

----------------------------------------------------------------------------
(* C22 *)

\* C22: Carry, DecimalMode and bits 4 and 5 of P are clear in every state; a
\* BCC step is taken, a BCS step is not, and a load in AbsoluteX or AbsoluteY
\* mode reads the byte at base + index with nothing added for the carry.
C22_CarryNeverSet ==
    /\ \A bit \in {Carry, DecimalMode, 4, 5} : ~GetBit(cpu.p, bit)
    /\ (Returned /\ last.opcode = \h90)
          => (cpu.pc = BranchTarget /\ last.cycles \in {3, 4})
    /\ (Returned /\ last.opcode = \hB0)
          => (cpu.pc = NextInstruction /\ last.cycles = 2)
    /\ (Returned /\ last.opcode \in AbsoluteXLoads \cup AbsoluteYLoads)
          => cpu[TargetRegister]
               = Read(last.ram, (OperandWord + IndexValue) % \h10000)

\* BCC +127 was taken with Zero, InterruptDisable and Overflow set and every
\* other flag clear
C22_Witness ==
    /\ Returned /\ last.opcode = \h90 /\ OperandByte = \h7F
    /\ cpu.pc = BranchTarget /\ cpu.pc # NextInstruction
    /\ cpu.p = \h46

============================================================================
